---- MODULE Spec2Model ----
(***************************************************************************)
(* Article lifecycle of the RSS digest: the Supabase-backed article store  *)
(* (src/src/database.py) and the digest run of the orchestrator            *)
(* (src/src/main.py), with the composer (src/src/llm_processor.py) and the *)
(* dispatcher (src/src/email_sender.py) as far as the run depends on them. *)
(*                                                                         *)
(* Time is counted in days: datetime.now() and date.today() read the same  *)
(* clock `now`.  A nullable column or value is a sequence of length 0      *)
(* (null / None) or 1 (the value).  The id of a row is its position in the *)
(* table: rows are never deleted and ids are handed out by the database.   *)
(***************************************************************************)
EXTENDS Integers, Sequences, FiniteSets, TLC

\* ------------------------------------------------------------------ bounds
MaxUrls == 2
MaxTime == 1

Urls == 1..MaxUrls
Titles == {"t1", "t2"}
Times == 0..MaxTime
DaysArgs == {1}

\* ------------------------------------------------------------ nullable values
Null == <<>>
Some(x) == <<x>>
IsNull(f) == f = <<>>
Val(f) == f[1]

NullableTimes == {Null} \cup {Some(t) : t \in Times}

\* Arguments update_article_analysis is called with: a full analysis, one with
\* empty lists, and one where the analyzer's data held no usable score (None).
AnalysisArgs ==
  { [llm_summary |-> "s1", llm_category |-> "Europe", importance_score |-> Some(9),
     key_entities |-> <<"e1">>, data_points |-> <<"d1">>],
    [llm_summary |-> "s2", llm_category |-> "Markets", importance_score |-> Some(3),
     key_entities |-> <<>>, data_points |-> <<>>],
    [llm_summary |-> "", llm_category |-> "Unknown", importance_score |-> Null,
     key_entities |-> <<>>, data_points |-> <<>>] }

\* Outcomes of one request to the storage backend.
ReadOutcomes == {"ok", "error"}
WriteOutcomes == {"ok", "nodata", "error"}

\* The digest prompt templates the configuration can hold, each as the set of
\* substitution points it uses: the shipped DIGEST_GENERATION_PROMPT and a
\* customised one without {date_range}.
ShippedDigestTemplate == {"date_range", "article_count", "article_list"}
DigestTemplates == {ShippedDigestTemplate, {"article_count", "article_list"}}

\* What the completion backend does with a digest request.
CompletionOutcomes == {"body", "empty", "error"}
\* The same, telling apart a body that names every article once from a draft
\* in which the link of some article appears twice.
DraftOutcomes == CompletionOutcomes \cup {"duplicate"}
\* What the mail transport does: a status code, or an exception (Null).
SuccessStatusCodes == {200, 201, 202}
TransportOutcomes == {Some(200), Some(201), Some(202), Some(204), Some(500), Null}
SaveOutcomes == {"ok", "error"}

\* The keys process_articles reads from an analysis.
AnalysisFields == {"summary", "category", "importance_score", "key_entities", "data_points"}

\* What the text of a completion can hold once json.loads has read it: text
\* that is not JSON ("garbage"), a non-empty array, or an object.  An object is
\* the set of its keys (`present`) and their values; the value of
\* importance_score can be the JSON null.
JsonValue(shape, present, summary, category, score, entities, points) ==
  [shape |-> shape, present |-> present, summary |-> summary, category |-> category,
   importance_score |-> score, key_entities |-> entities, data_points |-> points]

Garbage == JsonValue("garbage", {}, "", "", Null, <<>>, <<>>)
JsonArray == JsonValue("array", {}, "", "", Null, <<>>, <<>>)
EmptyObject == JsonValue("object", {}, "", "", Null, <<>>, <<>>)
FullAnalysis == JsonValue("object", AnalysisFields, "s1", "Europe", Some(9), <<"e1">>, <<"d1">>)
NoSummaryAnalysis ==
  JsonValue("object", AnalysisFields \ {"summary"}, "", "Markets", Some(3), <<>>, <<>>)
NullScoreAnalysis == JsonValue("object", AnalysisFields, "s1", "Europe", Null, <<"e1">>, <<"d1">>)
Score11Analysis == JsonValue("object", AnalysisFields, "s1", "Europe", Some(11), <<"e1">>, <<"d1">>)

JsonValues ==
  {Garbage, JsonArray, EmptyObject, FullAnalysis, NoSummaryAnalysis, NullScoreAnalysis,
   Score11Analysis}

\* How the completion's text wraps the JSON: bare, in a ``` block, in a
\* ```json block, or in a ```json block after a sentence of prose.
Wrappers == {"plain", "fence", "fence_json", "prose_fence"}

\* Tokens the backend reports for one completion, and the point where the
\* model stops following the counter.
MaxCallTokens == 2
MaxTotalTokens == 3
\* response.usage.total_tokens, or no usage attribute on the response (Null).
UsageReports == {Null} \cup {Some(n) : n \in 0..MaxCallTokens}

\* What the completion backend does with an analysis request: it raises, or it
\* answers with a usage report and a text.
ErrorReply == [raises |-> TRUE, usage |-> Null, wrapper |-> "plain", value |-> Garbage]
Replies ==
  {ErrorReply} \cup [raises : {FALSE}, usage : UsageReports, wrapper : Wrappers,
                     value : JsonValues]
\* The replies a run of process_articles is followed through.
ProcessReplies ==
  {r \in Replies : r.raises \/ (r.usage = Some(1) /\ (r.wrapper = "plain" \/ r.value = FullAnalysis))}

\* The ARTICLE_ANALYSIS_PROMPT of the configuration, as the set of its
\* substitution points.
AnalysisTemplate == {"title", "rss_summary", "feed_category", "published_date"}

\* limit of process_articles / get_unprocessed_articles: None or a number.
LimitArgs == {Null, Some(0), Some(1)}

\* Feed entries.  A date field of an entry is absent, a string dateutil cannot
\* parse, or a string holding a time with an offset ("aware") or without one
\* ("naive"); published_parsed is absent (Null) or a time tuple.  The fields
\* after `published` vary where _parse_date gets to read them, on entries
\* that have a link and a title.
MaxEntries == 2
MaxFeeds == 2
MaxCalls == 2
FetchDaysArgs == {0, 1}
NoLink == 0
EntryLinks == {NoLink, 1}
EntryTitles == {"", "t1"}
Absent == [kind |-> "absent", t |-> 0]
Unparsable == [kind |-> "garbage", t |-> 0]
DatedStrings == [kind : {"aware", "naive"}, t : Times]
Entries ==
  [link : EntryLinks, title : EntryTitles, published : DatedStrings,
   updated : {Absent}, created : {Absent}, published_parsed : {Null}]
  \cup
  [link : EntryLinks, title : EntryTitles, published : {Absent, Unparsable},
   updated : {Absent}, created : {Absent}, published_parsed : {Null}]
  \cup
  [link : {1}, title : {"t1"}, published : {Absent, Unparsable},
   updated : {Absent, [kind |-> "aware", t |-> MaxTime]}, created : {Absent, Unparsable},
   published_parsed : {Null, Some(0)}]

SeqsUpTo(S, n) == UNION {[1..m -> S] : m \in 0..n}

\* What feedparser gives for one feed: an exception (Null) or its entries.
SampleEntries ==
  {e \in Entries : /\ e.link = 1 /\ e.title = "t1"
                   /\ e.updated = Absent /\ e.created = Absent /\ e.published_parsed = Null
                   /\ e.published \in {Absent, [kind |-> "aware", t |-> 0],
                                        [kind |-> "naive", t |-> MaxTime]}}
FeedOutcomes == {Null} \cup {Some(es) : es \in SeqsUpTo(SampleEntries, MaxEntries)}

\* Entries with a link and a title as the stored feeds hold them: undated, or
\* dated a day before the end of the clock.
LinkedEntries ==
  [link : Urls, title : {"t1"}, published : {Absent},
   updated : {Absent}, created : {Absent}, published_parsed : {Null}]
  \cup
  [link : {1}, title : {"t1"}, published : {[kind |-> "aware", t |-> 0]},
   updated : {Absent}, created : {Absent}, published_parsed : {Null}]
LinkedFeedOutcomes == {Null} \cup {Some(es) : es \in SeqsUpTo(LinkedEntries, MaxEntries)}

\* How the database answers the insert_article calls of one run: every call
\* served (item 0), or the read or the write of one item failing.
StorageFaults ==
  {[item |-> 0, rd |-> "ok", wr |-> "ok"]}
  \cup [item : 1..(MaxFeeds * MaxEntries), rd : {"error"}, wr : {"ok"}]
  \cup [item : 1..(MaxFeeds * MaxEntries), rd : {"ok"}, wr : {"nodata", "error"}]

VARIABLES
  store,            \* the articles table: sequence of rows, id = position
  now,              \* the clock, in days
  prompt_template,  \* the DIGEST_GENERATION_PROMPT of the configuration
  last,             \* the last operation: its arguments, outcomes and result
  fenced,           \* ids of the rows a mark_articles_sent returning True has covered
  digests,          \* per row: number of successfully sent digests it was in (0, 1, 2 = more)
  total_tokens_used, \* LLMProcessor.total_tokens_used of the live LLMProcessor
  tokens_reported   \* sum of the total_tokens the backend reported to it

\* A run of the program is a process of its own: its LLMProcessor starts at 0
\* and ends with it.  Where every operation is such a run (Spec, SpecRun,
\* SpecProcess, SpecFetch) the counter is 0 between operations; SpecLLM follows
\* one LLMProcessor through its calls.
llm == <<total_tokens_used, tokens_reported>>

vars == <<store, now, prompt_template, last, fenced, digests, total_tokens_used, tokens_reported>>

Ids(st) == DOMAIN st
RowsWithUrl(st, url) == {i \in Ids(st) : st[i].url = url}

\* ------------------------------------------------------------ Database
\* The row insert_article writes; the analysis columns and
\* included_in_email_date take the table's default, null.
NewRowProcessed(article) ==
  [url |-> article.url, title |-> article.title,
   published_date |-> article.published_date,
   processed |-> TRUE,
   llm_summary |-> Null, llm_category |-> Null, importance_score |-> Null,
   key_entities |-> Null, data_points |-> Null,
   included_in_email_date |-> Null]

NewRow(article) ==
  [url |-> article.url, title |-> article.title,
   published_date |-> article.published_date,
   processed |-> FALSE,
   llm_summary |-> Null, llm_category |-> Null, importance_score |-> Null,
   key_entities |-> Null, data_points |-> Null,
   included_in_email_date |-> Null]

\* article_exists answering True when the read fails.
ArticleExistsOrError(st, url, rd) ==
  IF rd = "error" THEN TRUE ELSE RowsWithUrl(st, url) # {}

ArticleExists(st, url, rd) ==
  IF rd = "error" THEN FALSE ELSE RowsWithUrl(st, url) # {}

NoUniqueUrl(st, url) == FALSE

\* The table's uniqueness constraint on url: an insert of a url that is
\* already stored is rejected by the database.
UniqueUrlRejects(st, url) == RowsWithUrl(st, url) # {}

\* insert_article answering a stored url with the id of the stored row.
InsertArticleGetOrCreate(st, article, rd, wr) ==
  IF RowsWithUrl(st, article.url) # {}
    THEN [store |-> st, write_attempted |-> FALSE,
          ret |-> Some(CHOOSE i \in RowsWithUrl(st, article.url) : TRUE)]
  ELSE IF wr # "ok"
    THEN [store |-> st, ret |-> Null, write_attempted |-> TRUE]
  ELSE [store |-> Append(st, NewRow(article)), ret |-> Some(Len(st) + 1),
        write_attempted |-> TRUE]

InsertArticle(st, article, rd, wr) ==
  IF ArticleExists(st, article.url, rd)
    THEN [store |-> st, ret |-> Null, write_attempted |-> FALSE]
  ELSE IF wr # "ok" \/ UniqueUrlRejects(st, article.url)
    THEN [store |-> st, ret |-> Null, write_attempted |-> TRUE]
  ELSE [store |-> Append(st, NewRow(article)), ret |-> Some(Len(st) + 1),
        write_attempted |-> TRUE]

\* The write of insert_article answering a rejected duplicate with the id of
\* the stored row.
InsertArticleWriteGetOrCreate(st, article, wr) ==
  IF wr # "ok" THEN [store |-> st, ret |-> Null]
  ELSE IF UniqueUrlRejects(st, article.url)
    THEN [store |-> st, ret |-> Some(CHOOSE i \in RowsWithUrl(st, article.url) : TRUE)]
  ELSE [store |-> Append(st, NewRow(article)), ret |-> Some(Len(st) + 1)]

\* The second half of insert_article, reached when article_exists answered
\* False: the insert request, on the store as it is when the request arrives.
\* A failure or a rejection is caught and None returned.
InsertArticleWrite(st, article, wr) ==
  IF wr # "ok" \/ UniqueUrlRejects(st, article.url)
    THEN [store |-> st, ret |-> Null]
  ELSE [store |-> Append(st, NewRow(article)), ret |-> Some(Len(st) + 1)]

\* update_article_analysis writing the analysis columns without the flag.
UpdateArticleAnalysisKeepFlag(st, url, an, wr) ==
  IF wr = "ok" /\ RowsWithUrl(st, url) # {}
    THEN [store |-> [i \in Ids(st) |->
                       IF st[i].url = url
                         THEN [st[i] EXCEPT !.llm_summary = Some(an.llm_summary),
                                            !.llm_category = Some(an.llm_category),
                                            !.importance_score = an.importance_score,
                                            !.key_entities = Some(an.key_entities),
                                            !.data_points = Some(an.data_points)]
                         ELSE st[i]],
          ret |-> TRUE]
    ELSE [store |-> st, ret |-> FALSE]

UpdateArticleAnalysis(st, url, an, wr) ==
  IF wr = "ok" /\ RowsWithUrl(st, url) # {}
    THEN [store |-> [i \in Ids(st) |->
                       IF st[i].url = url
                         THEN [st[i] EXCEPT !.llm_summary = Some(an.llm_summary),
                                            !.llm_category = Some(an.llm_category),
                                            !.importance_score = an.importance_score,
                                            !.key_entities = Some(an.key_entities),
                                            !.data_points = Some(an.data_points),
                                            !.processed = TRUE]
                         ELSE st[i]],
          ret |-> TRUE]
    ELSE [store |-> st, ret |-> FALSE]

\* The digest query letting a null published_date through the range filters.
DigestQueryMatchesNullDates(st, start_date, end_date, only_processed) ==
  {i \in Ids(st) :
      /\ \/ IsNull(st[i].published_date)
         \/ /\ Val(st[i].published_date) >= start_date
            /\ Val(st[i].published_date) <= end_date
      /\ (only_processed => st[i].processed)
      /\ IsNull(st[i].included_in_email_date)}

\* The digest query without the filter on included_in_email_date.
DigestQueryMatchesNoFence(st, start_date, end_date, only_processed) ==
  {i \in Ids(st) :
      /\ ~IsNull(st[i].published_date)
      /\ Val(st[i].published_date) >= start_date
      /\ Val(st[i].published_date) <= end_date
      /\ (only_processed => st[i].processed)}

\* The filters of the digest query: gte/lte on published_date (a null
\* published_date satisfies neither), eq processed, is null included_in_email_date.
DigestQueryMatches(st, start_date, end_date, only_processed) ==
  {i \in Ids(st) :
      /\ ~IsNull(st[i].published_date)
      /\ Val(st[i].published_date) >= start_date
      /\ Val(st[i].published_date) <= end_date
      /\ (only_processed => st[i].processed)
      /\ IsNull(st[i].included_in_email_date)}

\* order("importance_score") without desc=True: ascending, nulls last.
OrderedByScoreAsc(st, seq) ==
  \A i, j \in DOMAIN seq :
     i < j => \/ IsNull(st[seq[j]].importance_score)
              \/ /\ ~IsNull(st[seq[i]].importance_score)
                 /\ Val(st[seq[i]].importance_score) <= Val(st[seq[j]].importance_score)

\* order("importance_score", desc=True): ORDER BY importance_score DESC, which
\* puts nulls first and leaves the order among equal scores to the database.
OrderedByScoreDesc(st, seq) ==
  \A i, j \in DOMAIN seq :
     i < j => \/ IsNull(st[seq[i]].importance_score)
              \/ /\ ~IsNull(st[seq[j]].importance_score)
                 /\ Val(st[seq[i]].importance_score) >= Val(st[seq[j]].importance_score)

Orderings(S) ==
  {seq \in [1..Cardinality(S) -> S] : \A i, j \in 1..Cardinality(S) : seq[i] = seq[j] => i = j}

\* get_articles_for_digest with lt instead of lte on the end of the range.
GetArticlesForDigestEndExclusive(st, start_date, end_date, only_processed, rd) ==
  IF rd = "error" THEN {<<>>}
  ELSE {seq \in Orderings(DigestQueryMatches(st, start_date, end_date - 1, only_processed)) :
          OrderedByScoreDesc(st, seq)}

\* The lists get_articles_for_digest can return (as ids of the rows).
GetArticlesForDigest(st, start_date, end_date, only_processed, rd) ==
  IF rd = "error" THEN {<<>>}
  ELSE {seq \in Orderings(DigestQueryMatches(st, start_date, end_date, only_processed)) :
          OrderedByScoreDesc(st, seq)}

\* mark_articles_sent stamping every row of the table.
MarkArticlesSentAll(st, article_ids, email_date, wr) ==
  IF wr = "ok" /\ Ids(st) # {}
    THEN [store |-> [i \in Ids(st) |->
                       [st[i] EXCEPT !.included_in_email_date = Some(email_date)]],
          ret |-> TRUE]
    ELSE [store |-> st, ret |-> FALSE]

MarkArticlesSent(st, article_ids, email_date, wr) ==
  LET hit == article_ids \cap Ids(st) IN
  IF wr = "ok" /\ hit # {}
    THEN [store |-> [i \in Ids(st) |->
                       IF i \in hit
                         THEN [st[i] EXCEPT !.included_in_email_date = Some(email_date)]
                         ELSE st[i]],
          ret |-> TRUE]
    ELSE [store |-> st, ret |-> FALSE]

\* The lists get_unprocessed_articles can return (as ids of the rows): the
\* rows with processed = False, in an order the query leaves to the database;
\* limit(n) is applied only when `limit` is truthy.  [] on an exception.
GetUnprocessedArticles(st, limit, rd) ==
  LET unprocessed == {i \in Ids(st) : ~st[i].processed} IN
  IF rd = "error" THEN {<<>>}
  ELSE IF IsNull(limit) \/ Val(limit) = 0 THEN Orderings(unprocessed)
  ELSE UNION {Orderings(S) : S \in {T \in SUBSET unprocessed :
                 Cardinality(T) = IF Cardinality(unprocessed) < Val(limit)
                                    THEN Cardinality(unprocessed) ELSE Val(limit)}}

\* get_stats with pending_processing taken from the sent count.
GetStatsPendingFromSent(st, rd) ==
  LET total == Len(st)
      sent == Cardinality({i \in Ids(st) : ~IsNull(st[i].included_in_email_date)}) IN
  IF rd = "error" THEN Null
  ELSE Some([total_articles |-> total,
             processed_articles |-> Cardinality({i \in Ids(st) : st[i].processed}),
             sent_articles |-> sent,
             pending_processing |-> total - sent])

\* get_stats: three count queries and a difference; {} (here Null) on an
\* exception.  It issues no write.
GetStats(st, rd) ==
  LET total == Len(st)
      processed == Cardinality({i \in Ids(st) : st[i].processed = TRUE})
      sent == Cardinality({i \in Ids(st) : ~IsNull(st[i].included_in_email_date)}) IN
  IF rd = "error" THEN Null
  ELSE Some([total_articles |-> total,
             processed_articles |-> processed,
             sent_articles |-> sent,
             pending_processing |-> total - processed])

\* ------------------------------------------------------------ LLMProcessor
\* sorted(articles, key=importance_score, reverse=True) compares the keys of a
\* list of two or more articles; a None key makes the comparison raise.
SortRaises(st, articles) ==
  /\ Len(articles) >= 2
  /\ \E k \in DOMAIN articles : IsNull(st[articles[k]].importance_score)

\* _format_articles_for_prompt joins key_entities and data_points; a null
\* column (None) makes join raise.
FormatArticlesRaises(st, articles) ==
  \E k \in DOMAIN articles :
     IsNull(st[articles[k]].key_entities) \/ IsNull(st[articles[k]].data_points)

\* prompt_template.format(article_count=..., article_list=...) raises KeyError
\* for a substitution point of the template it is given no value for.
FormatPromptRaises(template) ==
  ~(template \subseteq {"article_count", "article_list"})

\* generate_digest: None (Null) on any exception, else the stripped body as
\* the backend wrote it, which is the empty string when the backend returned
\* only whitespace.
GenerateDigest(st, articles, template, completion) ==
  IF \/ SortRaises(st, articles)
     \/ FormatArticlesRaises(st, articles)
     \/ FormatPromptRaises(template)
     \/ completion = "error"
    THEN Null
  ELSE IF completion = "empty" THEN Some("")
  ELSE IF completion = "duplicate" THEN Some("body_dup")
  ELSE Some("body")

\* Whether generate_digest gets as far as the completion request.
CompletionRequested(st, articles, template) ==
  ~(SortRaises(st, articles) \/ FormatArticlesRaises(st, articles)
      \/ FormatPromptRaises(template))

\* prompt_template.format(title=, rss_summary=, feed_category=, published_date=)
\* raises KeyError for any other substitution point of the template.
AnalysisPromptRaises(template) ==
  ~(template \subseteq {"title", "rss_summary", "feed_category", "published_date"})

\* The text analyze_article hands to json.loads is the bare JSON only if the
\* completion starts with it or with a ``` block (whose "json" tag is cut).
StripsToJson(wrapper) == wrapper \in {"plain", "fence", "fence_json"}

\* json.loads on the stripped text: the value, or JSONDecodeError (Null).
ParseContent(wrapper, value) ==
  IF StripsToJson(wrapper) /\ value.shape # "garbage" THEN Some(value) ELSE Null

\* The counter after a response: usage.total_tokens is added when the
\* response has a usage attribute.
TrackTokens(total, usage) == IF IsNull(usage) THEN total ELSE total + Val(usage)

\* analyze_article counting the tokens only of a completion whose text parsed.
AnalyzeArticleCountParsed(total, template, reply) ==
  IF AnalysisPromptRaises(template)
    THEN [ret |-> Null, total |-> total, requested |-> FALSE]
  ELSE IF reply.raises
    THEN [ret |-> Null, total |-> total, requested |-> TRUE]
  ELSE [ret |-> ParseContent(reply.wrapper, reply.value),
        total |-> IF IsNull(ParseContent(reply.wrapper, reply.value))
                    THEN total ELSE TrackTokens(total, reply.usage),
        requested |-> TRUE]

\* analyze_article on an LLMProcessor whose counter is `total`: what it
\* returns (None = Null), the counter it leaves, and whether a completion
\* request was issued.
AnalyzeArticle(total, template, reply) ==
  IF AnalysisPromptRaises(template)
    THEN [ret |-> Null, total |-> total, requested |-> FALSE]
  ELSE IF reply.raises
    THEN [ret |-> Null, total |-> total, requested |-> TRUE]
  ELSE [ret |-> ParseContent(reply.wrapper, reply.value),
        total |-> TrackTokens(total, reply.usage),
        requested |-> TRUE]

\* The counter generate_digest leaves: the tokens of its completion are added
\* once the backend has answered.
GenerateDigestTokens(total, st, articles, template, completion, usage) ==
  IF CompletionRequested(st, articles, template) /\ completion # "error"
    THEN TrackTokens(total, usage) ELSE total

\* ------------------------------------------------------------ RSSFetcher
\* date_parser.parse of a date field: the datetime, aware or naive as the
\* string is; Null when the field is absent or parse raises.
DateOf(field) ==
  IF field.kind \in {"aware", "naive"}
    THEN Some([aware |-> field.kind = "aware", t |-> field.t])
    ELSE Null

\* _parse_date: the first of published, updated, created that parses, else
\* datetime(*published_parsed[:6]), which is naive, else None.
ParseDate(entry) ==
  IF ~IsNull(DateOf(entry.published)) THEN DateOf(entry.published)
  ELSE IF ~IsNull(DateOf(entry.updated)) THEN DateOf(entry.updated)
  ELSE IF ~IsNull(DateOf(entry.created)) THEN DateOf(entry.created)
  ELSE IF ~IsNull(entry.published_parsed)
    THEN Some([aware |-> FALSE, t |-> Val(entry.published_parsed)])
  ELSE Null

\* The article _fetch_single_feed builds from an entry.
ArticleOf(entry, feed_name, pub_date) ==
  [url |-> entry.link, title |-> entry.title, feed_category |-> feed_name,
   published_date |-> IF IsNull(pub_date) THEN Null ELSE Some(Val(pub_date).t)]

\* The body of the entry loop dropping an entry without a date.
FetchEntryDropUndated(entry, feed_name, cutoff_date) ==
  LET pub_date == ParseDate(entry) IN
  IF IsNull(pub_date) THEN Null
  ELSE IF ~Val(pub_date).aware THEN Null
  ELSE IF Val(pub_date).t < cutoff_date THEN Null
  ELSE IF entry.link = NoLink \/ entry.title = "" THEN Null
  ELSE Some(ArticleOf(entry, feed_name, pub_date))

\* The body of the entry loop of _fetch_single_feed: the article appended, or
\* Null when the entry is skipped.  cutoff_date is aware (datetime.now(
\* timezone.utc) - timedelta): comparing a naive pub_date with it raises
\* TypeError, which the loop catches, dropping the entry.
FetchEntry(entry, feed_name, cutoff_date) ==
  LET pub_date == ParseDate(entry) IN
  IF ~IsNull(pub_date) /\ ~Val(pub_date).aware THEN Null
  ELSE IF ~IsNull(pub_date) /\ Val(pub_date).t < cutoff_date THEN Null
  ELSE IF entry.link = NoLink \/ entry.title = "" THEN Null
  ELSE Some(ArticleOf(entry, feed_name, pub_date))

\* _fetch_single_feed on the entries feedparser returned, from the k-th on.
RECURSIVE FetchEntries(_, _, _, _)
FetchEntries(entries, feed_name, cutoff_date, k) ==
  IF k > Len(entries) THEN <<>>
  ELSE FetchEntry(entries[k], feed_name, cutoff_date)
         \o FetchEntries(entries, feed_name, cutoff_date, k + 1)

FetchSingleFeed(entries, feed_name, cutoff_date) ==
  FetchEntries(entries, feed_name, cutoff_date, 1)

\* The body of the feed loop forgetting what it has collected when a feed fails.
FetchFeedOrReset(acc, feed, feed_name, cutoff_date) ==
  IF IsNull(feed)
    THEN [all_articles |-> <<>>, fetches |-> Append(acc.fetches, 1)]
  ELSE [all_articles |-> acc.all_articles \o FetchSingleFeed(Val(feed), feed_name, cutoff_date),
        fetches |-> Append(acc.fetches, 1)]

\* The body of the feed loop of fetch_recent_articles: one _fetch_single_feed
\* for the feed; if it raises, the failure is logged and the loop goes on.
FetchFeed(acc, feed, feed_name, cutoff_date) ==
  IF IsNull(feed)
    THEN [acc EXCEPT !.fetches = Append(@, 1)]
  ELSE [all_articles |-> acc.all_articles \o FetchSingleFeed(Val(feed), feed_name, cutoff_date),
        fetches |-> Append(acc.fetches, 1)]

\* The feed loop from the k-th configured feed on.
RECURSIVE FetchLoop(_, _, _, _)
FetchLoop(feeds, cutoff_date, k, acc) ==
  IF k > Len(feeds) THEN acc
  ELSE FetchLoop(feeds, cutoff_date, k + 1, FetchFeed(acc, feeds[k], k, cutoff_date))

\* fetch_recent_articles: cutoff_date = now - days; the feeds are named by
\* their position in the configuration.
FetchRecentArticles(feeds, today, days) ==
  FetchLoop(feeds, today - days, 1, [all_articles |-> <<>>, fetches |-> <<>>])

\* ------------------------------------------------------------ EmailSender
\* send_digest counting every 2xx status as sent.
SendDigestAny2xx(transport) ==
  IF IsNull(transport) THEN FALSE ELSE Val(transport) \in 200..299

\* send_digest: the message is built and handed to the client inside one try;
\* Null stands for an exception raised there, else the response's status_code.
SendDigest(transport) ==
  IF IsNull(transport) THEN FALSE ELSE Val(transport) \in SuccessStatusCodes

\* save_digest_html: True when the file is written, False (the exception is
\* logged) when it cannot be.
SaveDigestHtml(sv) == sv = "ok"

\* ------------------------------------------------------------ DigestOrchestrator
Range(seq) == {seq[k] : k \in DOMAIN seq}

NoOp ==
  [op |-> "none", url |-> 0, rd |-> "ok", write_attempted |-> FALSE, ret_id |-> Null,
   days |-> 0, dry_run |-> FALSE, articles |-> <<>>, digest_html |-> Null,
   saved |-> "no", send_called |-> FALSE, send_ok |-> FALSE,
   mark_called |-> FALSE, mark_ret |-> FALSE, ret_ok |-> FALSE,
   analyses |-> <<>>, requests |-> <<>>, update_called |-> <<>>, updated |-> <<>>,
   processed_count |-> 0, requested |-> FALSE, tokens_before |-> 0,
   entries |-> <<>>, feeds |-> <<>>, fetches |-> <<>>, fetched |-> <<>>,
   steps |-> <<>>, exit_status |-> 0, new_count |-> 0, stored_before |-> {},
   rows |-> <<>>, completion |-> "none", stats |-> <<>>, limit |-> <<>>, fault |-> 0,
   transport |-> <<>>, calls |-> <<>>]

\* generate_and_send_digest marking the articles whatever send_digest returned.
GenerateAndSendDigestMarkAlways(st, today, template, days, dry_run, articles, completion, sv, transport, wr) ==
  LET run == [NoOp EXCEPT !.op = "generate_and_send_digest", !.days = days,
                          !.dry_run = dry_run, !.articles = articles]
      digest_html == GenerateDigest(st, articles, template, completion)
      composed == [run EXCEPT !.digest_html = digest_html]
      success == SendDigest(transport)
      marked == MarkArticlesSent(st, Range(articles), today, wr) IN
  IF articles = <<>>
    THEN [store |-> st, run |-> run]
  ELSE IF IsNull(digest_html) \/ Val(digest_html) = ""
    THEN [store |-> st, run |-> composed]
  ELSE IF dry_run
    THEN [store |-> st, run |-> [composed EXCEPT !.saved = sv, !.ret_ok = TRUE]]
  ELSE [store |-> marked.store,
        run |-> [composed EXCEPT !.saved = sv, !.send_called = TRUE, !.send_ok = success,
                                 !.mark_called = TRUE, !.mark_ret = marked.ret,
                                 !.ret_ok = success]]

\* generate_and_send_digest sending whatever generate_digest returned that is
\* not None, an empty body included.
GenerateAndSendDigestSendEmpty(st, today, template, days, dry_run, articles, completion, sv, transport, wr) ==
  LET run == [NoOp EXCEPT !.op = "generate_and_send_digest", !.days = days,
                          !.dry_run = dry_run, !.articles = articles,
                          !.steps = <<"select">>]
      digest_html == GenerateDigest(st, articles, template, completion)
      composed == [run EXCEPT !.digest_html = digest_html, !.steps = <<"select", "compose">>] IN
  IF articles = <<>>
    THEN [store |-> st, run |-> run]
  ELSE IF IsNull(digest_html)
    THEN [store |-> st, run |-> composed]
  ELSE IF dry_run
    THEN [store |-> st,
          run |-> [composed EXCEPT !.saved = sv, !.ret_ok = TRUE,
                                   !.steps = <<"select", "compose", "save">>]]
  ELSE [store |-> st,
        run |-> [composed EXCEPT !.saved = sv, !.send_called = TRUE,
                                 !.steps = <<"select", "compose", "save", "send">>]]

\* generate_and_send_digest dispatching in a dry run too.
GenerateAndSendDigestIgnoreDryRun(st, today, template, days, dry_run, articles, completion, sv, transport, wr) ==
  LET run == [NoOp EXCEPT !.op = "generate_and_send_digest", !.days = days,
                          !.dry_run = dry_run, !.articles = articles,
                          !.steps = <<"select">>]
      digest_html == GenerateDigest(st, articles, template, completion)
      composed == [run EXCEPT !.digest_html = digest_html, !.steps = <<"select", "compose">>]
      marked == MarkArticlesSent(st, Range(articles), today, "ok") IN
  IF articles = <<>>
    THEN [store |-> st, run |-> run]
  ELSE IF IsNull(digest_html) \/ Val(digest_html) = ""
    THEN [store |-> st, run |-> composed]
  ELSE [store |-> marked.store,
        run |-> [composed EXCEPT !.saved = sv, !.send_called = TRUE, !.send_ok = TRUE,
                                 !.mark_called = TRUE, !.mark_ret = marked.ret,
                                 !.ret_ok = TRUE,
                                 !.steps = <<"select", "compose", "save", "send", "mark">>]]

\* generate_and_send_digest stamping the selected articles before composing.
GenerateAndSendDigestMarkFirst(st, today, template, days, dry_run, articles, completion, sv, transport, wr) ==
  LET run == [NoOp EXCEPT !.op = "generate_and_send_digest", !.days = days,
                          !.dry_run = dry_run, !.articles = articles,
                          !.steps = <<"select">>]
      digest_html == GenerateDigest(st, articles, template, completion)
      marked == MarkArticlesSent(st, Range(articles), today, "ok") IN
  IF articles = <<>>
    THEN [store |-> st, run |-> run]
  ELSE [store |-> marked.store,
        run |-> [run EXCEPT !.digest_html = digest_html, !.mark_called = TRUE,
                            !.mark_ret = marked.ret,
                            !.steps = <<"select", "mark", "compose">>]]

\* generate_and_send_digest writing the local file only once the mail is out.
GenerateAndSendDigestSaveAfterSend(st, today, template, days, dry_run, articles, completion, sv, transport, wr) ==
  LET run == [NoOp EXCEPT !.op = "generate_and_send_digest", !.days = days,
                          !.dry_run = dry_run, !.articles = articles,
                          !.steps = <<"select">>]
      digest_html == GenerateDigest(st, articles, template, completion)
      composed == [run EXCEPT !.digest_html = digest_html, !.steps = <<"select", "compose">>]
      success == SendDigest(transport)
      marked == MarkArticlesSent(st, Range(articles), today, wr) IN
  IF articles = <<>>
    THEN [store |-> st, run |-> run]
  ELSE IF IsNull(digest_html) \/ Val(digest_html) = ""
    THEN [store |-> st, run |-> composed]
  ELSE IF dry_run
    THEN [store |-> st, run |-> [composed EXCEPT !.ret_ok = TRUE]]
  ELSE IF ~success
    THEN [store |-> st,
          run |-> [composed EXCEPT !.send_called = TRUE,
                                   !.steps = <<"select", "compose", "send">>]]
  ELSE [store |-> marked.store,
        run |-> [composed EXCEPT !.saved = sv, !.send_called = TRUE, !.send_ok = TRUE,
                                 !.mark_called = TRUE, !.mark_ret = marked.ret,
                                 !.ret_ok = TRUE,
                                 !.steps = <<"select", "compose", "send", "save", "mark">>]]

\* generate_and_send_digest giving up when the local copy cannot be written.
GenerateAndSendDigestAbortOnSaveError(st, today, template, days, dry_run, articles, completion, sv, transport, wr) ==
  LET run == [NoOp EXCEPT !.op = "generate_and_send_digest", !.days = days,
                          !.dry_run = dry_run, !.articles = articles,
                          !.steps = <<"select">>]
      digest_html == GenerateDigest(st, articles, template, completion)
      composed == [run EXCEPT !.digest_html = digest_html, !.steps = <<"select", "compose">>]
      success == SendDigest(transport)
      marked == MarkArticlesSent(st, Range(articles), today, wr) IN
  IF articles = <<>>
    THEN [store |-> st, run |-> run]
  ELSE IF IsNull(digest_html) \/ Val(digest_html) = ""
    THEN [store |-> st, run |-> composed]
  ELSE IF ~SaveDigestHtml(sv)
    THEN [store |-> st,
          run |-> [composed EXCEPT !.saved = sv,
                                   !.steps = <<"select", "compose", "save">>]]
  ELSE IF dry_run
    THEN [store |-> st,
          run |-> [composed EXCEPT !.saved = sv, !.ret_ok = TRUE,
                                   !.steps = <<"select", "compose", "save">>]]
  ELSE IF ~success
    THEN [store |-> st,
          run |-> [composed EXCEPT !.saved = sv, !.send_called = TRUE,
                                   !.transport = transport,
                                   !.steps = <<"select", "compose", "save", "send">>]]
  ELSE [store |-> marked.store,
        run |-> [composed EXCEPT !.saved = sv, !.send_called = TRUE, !.send_ok = TRUE,
                                 !.transport = transport,
                                 !.mark_called = TRUE, !.mark_ret = marked.ret,
                                 !.ret_ok = TRUE,
                                 !.steps = <<"select", "compose", "save", "send", "mark">>]]

\* generate_and_send_digest once get_articles_for_digest has returned
\* `articles`: the store it leaves and the record of what it did, `steps`
\* being the calls it made, in order.  save_html is at its default True;
\* `today` is date.today().
GenerateAndSendDigest(st, today, template, days, dry_run, articles, completion, sv, transport, wr) ==
  LET run == [NoOp EXCEPT !.op = "generate_and_send_digest", !.days = days,
                          !.dry_run = dry_run, !.articles = articles,
                          !.steps = <<"select">>]
      digest_html == GenerateDigest(st, articles, template, completion)
      composed == [run EXCEPT !.digest_html = digest_html, !.steps = <<"select", "compose">>]
      success == SendDigest(transport)
      marked == MarkArticlesSent(st, Range(articles), today, wr) IN
  IF articles = <<>>
    THEN [store |-> st, run |-> run]
  ELSE IF IsNull(digest_html) \/ Val(digest_html) = ""
    THEN [store |-> st, run |-> composed]
  ELSE IF dry_run
    THEN [store |-> st,
          run |-> [composed EXCEPT !.saved = sv, !.ret_ok = TRUE,
                                   !.steps = <<"select", "compose", "save">>]]
  ELSE IF ~success
    THEN [store |-> st,
          run |-> [composed EXCEPT !.saved = sv, !.send_called = TRUE,
                                   !.transport = transport,
                                   !.steps = <<"select", "compose", "save", "send">>]]
  ELSE [store |-> marked.store,
        run |-> [composed EXCEPT !.saved = sv, !.send_called = TRUE, !.send_ok = TRUE,
                                 !.transport = transport,
                                 !.mark_called = TRUE, !.mark_ret = marked.ret,
                                 !.ret_ok = TRUE,
                                 !.steps = <<"select", "compose", "save", "send", "mark">>]]

\* main: the value generate_and_send_digest returns in send-only mode is
\* dropped and main returns, so the process exits with status 0.
SendOnlyExitStatus(success) == 0

\* run_full_workflow logs the value generate_and_send_digest returns; only an
\* exception escaping a step ends the process with sys.exit(1).
FullWorkflowExitStatus(raised, success) == IF raised THEN 1 ELSE 0

\* The body of the store loop counting every fetched item as new.
StoreItemCountAll(acc, article, rd, wr) ==
  [store |-> InsertArticle(acc.store, article, rd, wr).store,
   new_count |-> acc.new_count + 1]

\* The body of the store loop of fetch_and_store_articles: one insert_article,
\* counted when it returns an id (`if article_id`).
StoreItem(acc, article, rd, wr) ==
  LET r == InsertArticle(acc.store, article, rd, wr) IN
  [store |-> r.store,
   new_count |-> IF ~IsNull(r.ret) /\ Val(r.ret) # 0
                   THEN acc.new_count + 1 ELSE acc.new_count]

\* The store loop from the k-th article on.
RECURSIVE StoreLoop(_, _, _, _)
StoreLoop(articles, fault, k, acc) ==
  IF k > Len(articles) THEN acc
  ELSE StoreLoop(articles, fault, k + 1,
                 IF k = fault.item
                   THEN StoreItem(acc, articles[k], fault.rd, fault.wr)
                   ELSE StoreItem(acc, articles[k], "ok", "ok"))

\* articles[:limit], taken when `limit` is truthy.
LimitTo(articles, limit) ==
  IF ~IsNull(limit) /\ Val(limit) # 0 /\ Val(limit) < Len(articles)
    THEN SubSeq(articles, 1, Val(limit)) ELSE articles

\* The store loop over the articles, and what the run logs and returns.
StoreArticles(st, articles, fault) ==
  LET r == StoreLoop(articles, fault, 1, [store |-> st, new_count |-> 0]) IN
  [store |-> r.store, new_count |-> r.new_count, articles |-> articles]

\* fetch_and_store_articles: the articles fetch_recent_articles returns, cut
\* to `limit` when it is truthy, inserted one by one.
FetchAndStoreArticles(st, feeds, today, days, limit, fault) ==
  StoreArticles(st, LimitTo(FetchRecentArticles(feeds, today, days).all_articles, limit),
                fault)

\* bool(analysis): an empty object is falsy.
Truthy(value) == value.shape = "array" \/ value.present # {}

\* The keyword arguments process_articles builds with analysis.get(key, default).
AnalysisOf(value) ==
  [llm_summary |-> IF "summary" \in value.present THEN value.summary ELSE "",
   llm_category |-> IF "category" \in value.present THEN value.category ELSE "Unknown",
   importance_score |-> IF "importance_score" \in value.present
                          THEN value.importance_score ELSE Some(5),
   key_entities |-> IF "key_entities" \in value.present THEN value.key_entities ELSE <<>>,
   data_points |-> IF "data_points" \in value.present THEN value.data_points ELSE <<>>]

\* One pass of the loop of process_articles storing the defaults of
\* analysis.get when the analysis failed.
ProcessArticleDefaults(st, total, id, reply, wr) ==
  LET a == AnalyzeArticle(total, AnalysisTemplate, reply)
      u == UpdateArticleAnalysis(st, st[id].url,
             AnalysisOf(IF IsNull(a.ret) THEN EmptyObject ELSE Val(a.ret)), wr) IN
  IF ~IsNull(a.ret) /\ Val(a.ret).shape # "object"
    THEN [store |-> st, total |-> a.total, analysis |-> a.ret,
          requests |-> IF a.requested THEN 1 ELSE 0,
          update_called |-> FALSE, updated |-> FALSE]
  ELSE [store |-> u.store, total |-> a.total, analysis |-> a.ret,
        requests |-> IF a.requested THEN 1 ELSE 0,
        update_called |-> TRUE, updated |-> u.ret]

\* One pass of the loop of process_articles, for the article with this id:
\* one analyze_article, and one update_article_analysis if the analysis is
\* truthy.  analysis.get on a value that is no object raises, which the loop
\* catches.
ProcessArticle(st, total, id, reply, wr) ==
  LET a == AnalyzeArticle(total, AnalysisTemplate, reply)
      u == UpdateArticleAnalysis(st, st[id].url, AnalysisOf(Val(a.ret)), wr) IN
  IF IsNull(a.ret) \/ ~Truthy(Val(a.ret)) \/ Val(a.ret).shape # "object"
    THEN [store |-> st, total |-> a.total, analysis |-> a.ret,
          requests |-> IF a.requested THEN 1 ELSE 0,
          update_called |-> FALSE, updated |-> FALSE]
  ELSE [store |-> u.store, total |-> a.total, analysis |-> a.ret,
        requests |-> IF a.requested THEN 1 ELSE 0,
        update_called |-> TRUE, updated |-> u.ret]

\* The loop of process_articles ending at the first article whose handling
\* fails.
RECURSIVE ProcessLoopStopOnFailure(_, _, _, _, _, _, _)
ProcessLoopStopOnFailure(st, total, articles, replies, wrs, k, run) ==
  IF k > Len(articles) THEN [store |-> st, total |-> total, run |-> run]
  ELSE LET p == ProcessArticle(st, total, articles[k], replies[k], wrs[k])
           next == [run EXCEPT !.analyses = Append(@, p.analysis),
                               !.requests = Append(@, p.requests),
                               !.update_called = Append(@, p.update_called),
                               !.updated = Append(@, p.updated),
                               !.processed_count = IF p.updated THEN @ + 1 ELSE @] IN
       IF ~p.updated THEN [store |-> p.store, total |-> p.total, run |-> next]
       ELSE ProcessLoopStopOnFailure(p.store, p.total, articles, replies, wrs, k + 1, next)

\* The loop of process_articles from its k-th article on; `run` collects, per
\* article, what was done for it.
RECURSIVE ProcessLoop(_, _, _, _, _, _, _)
ProcessLoop(st, total, articles, replies, wrs, k, run) ==
  IF k > Len(articles) THEN [store |-> st, total |-> total, run |-> run]
  ELSE LET p == ProcessArticle(st, total, articles[k], replies[k], wrs[k]) IN
       ProcessLoop(p.store, p.total, articles, replies, wrs, k + 1,
         [run EXCEPT !.analyses = Append(@, p.analysis),
                     !.requests = Append(@, p.requests),
                     !.update_called = Append(@, p.update_called),
                     !.updated = Append(@, p.updated),
                     !.processed_count = IF p.updated THEN @ + 1 ELSE @])

\* process_articles once get_unprocessed_articles has returned `articles`,
\* on an LLMProcessor that has used no tokens yet.
ProcessArticles(st, articles, replies, wrs) ==
  ProcessLoop(st, 0, articles, replies, wrs, 1,
              [NoOp EXCEPT !.op = "process_articles", !.articles = articles])

\* ------------------------------------------------------------ state machine
InitStore ==
  /\ store = <<>>
  /\ now = 0
  /\ last = NoOp
  /\ fenced = {}
  /\ digests = <<>>
  /\ total_tokens_used = 0
  /\ tokens_reported = 0

\* The store as the shipped configuration finds it.
Init ==
  /\ InitStore
  /\ prompt_template = ShippedDigestTemplate

\* The same with the digest template the configuration file invites to customise.
InitRun ==
  /\ InitStore
  /\ prompt_template \in DigestTemplates

Tick ==
  /\ now < MaxTime
  /\ now' = now + 1
  /\ last' = [NoOp EXCEPT !.op = "tick"]
  /\ UNCHANGED <<store, prompt_template, fenced, digests, llm>>

InsertArticleCall(article, rd, wr) ==
  LET r == InsertArticle(store, article, rd, wr) IN
  /\ store' = r.store
  /\ digests' = IF Len(r.store) > Len(store) THEN Append(digests, 0) ELSE digests
  /\ last' = [NoOp EXCEPT !.op = "insert_article", !.url = article.url, !.rd = rd,
                          !.write_attempted = r.write_attempted, !.ret_id = r.ret]
  /\ UNCHANGED <<now, prompt_template, fenced, llm>>

\* The article and the outcome of the write are drawn when the call gets to
\* the write.
InsertArticleStep(titles) ==
  \E url \in Urls, rd \in ReadOutcomes :
    IF ArticleExists(store, url, rd) \/ UniqueUrlRejects(store, url)
      THEN InsertArticleCall([url |-> url, title |-> "t1", published_date |-> Null],
                             rd, "ok")
    ELSE \E title \in titles, pub \in NullableTimes, wr \in WriteOutcomes :
      InsertArticleCall([url |-> url, title |-> title, published_date |-> pub], rd, wr)

DoInsertArticle == InsertArticleStep(Titles)

DoUpdateArticleAnalysis ==
  \E url \in Urls, an \in AnalysisArgs, wr \in ReadOutcomes :
    LET r == UpdateArticleAnalysis(store, url, an, wr) IN
    /\ store' = r.store
    /\ last' = [NoOp EXCEPT !.op = "update_article_analysis"]
    /\ UNCHANGED <<now, prompt_template, fenced, digests, llm>>

DoMarkArticlesSent ==
  \E article_ids \in SUBSET Urls, email_date \in Times, wr \in ReadOutcomes :
    LET r == MarkArticlesSent(store, article_ids, email_date, wr) IN
    /\ store' = r.store
    /\ fenced' = IF r.ret THEN fenced \cup (article_ids \cap Ids(store)) ELSE fenced
    /\ last' = [NoOp EXCEPT !.op = "mark_articles_sent"]
    /\ UNCHANGED <<now, prompt_template, digests, llm>>

DoGetStats ==
  \E rd \in ReadOutcomes :
    /\ last' = [NoOp EXCEPT !.op = "get_stats", !.rd = rd, !.stats = GetStats(store, rd)]
    /\ UNCHANGED <<store, now, prompt_template, fenced, digests, llm>>

Bump(d, ids) ==
  [i \in DOMAIN d |-> IF i \in ids /\ d[i] < 2 THEN d[i] + 1 ELSE d[i]]

DigestRun(days, dry_run, rd, articles, completion, sv, transport, wr) ==
  LET r == GenerateAndSendDigest(store, now, prompt_template, days, dry_run, articles,
                                 completion, sv, transport, wr) IN
  /\ store' = r.store
  /\ last' = [r.run EXCEPT !.rd = rd, !.exit_status = SendOnlyExitStatus(r.run.ret_ok)]
  /\ fenced' = IF r.run.mark_called /\ r.run.mark_ret
                 THEN fenced \cup Range(articles) ELSE fenced
  /\ digests' = IF r.run.send_ok THEN Bump(digests, Range(articles)) ELSE digests
  /\ UNCHANGED <<now, prompt_template, llm>>

\* The inputs of a run are drawn only as far as the run gets.
DoGenerateAndSendDigest ==
  \E days \in DaysArgs, dry_run \in BOOLEAN, rd \in ReadOutcomes :
    \E articles \in GetArticlesForDigest(store, now - days, now, TRUE, rd) :
      IF articles = <<>> \/ ~CompletionRequested(store, articles, prompt_template)
        THEN DigestRun(days, dry_run, rd, articles, "error", "ok", Null, "ok")
      ELSE \E completion \in CompletionOutcomes :
        IF completion # "body"
          THEN DigestRun(days, dry_run, rd, articles, completion, "ok", Null, "ok")
        ELSE \E sv \in SaveOutcomes :
          IF dry_run
            THEN DigestRun(days, dry_run, rd, articles, completion, sv, Null, "ok")
          ELSE \E transport \in TransportOutcomes :
            IF ~SendDigest(transport)
              THEN DigestRun(days, dry_run, rd, articles, completion, sv, transport, "ok")
            ELSE \E wr \in ReadOutcomes :
              DigestRun(days, dry_run, rd, articles, completion, sv, transport, wr)

\* The store under any sequence of calls of the Database methods.
Next ==
  \/ DoInsertArticle
  \/ DoUpdateArticleAnalysis
  \/ DoMarkArticlesSent
  \/ DoGetStats

Spec == Init /\ [][Next]_vars

\* The orchestrator's runs, one after another, as the clock advances.
StoreArticle == InsertArticleStep({"t1"})

NextRun ==
  \/ Tick
  \/ StoreArticle
  \/ DoUpdateArticleAnalysis
  \/ DoGenerateAndSendDigest

SpecRun == InitRun /\ [][NextRun]_vars

\* A run of process_articles; its return value is last.processed_count.
DoProcessArticles ==
  \E limit \in LimitArgs, rd \in ReadOutcomes :
    \E articles \in GetUnprocessedArticles(store, limit, rd) :
      \E replies \in [DOMAIN articles -> ProcessReplies],
         wrs \in [DOMAIN articles -> ReadOutcomes] :
        LET r == ProcessArticles(store, articles, replies, wrs) IN
        /\ store' = r.store
        /\ last' = [r.run EXCEPT !.limit = limit, !.rd = rd]
        /\ UNCHANGED <<now, prompt_template, fenced, digests, llm>>

\* The fetch and process stages, run one after another.
StoreUndated ==
  \E url \in Urls, rd \in ReadOutcomes, wr \in WriteOutcomes :
    InsertArticleCall([url |-> url, title |-> "t1", published_date |-> Null], rd, wr)

NextProcess ==
  \/ StoreUndated
  \/ DoProcessArticles

SpecProcess == Init /\ [][NextProcess]_vars

\* The rows an LLMProcessor is handed by its callers: an article as
\* update_article_analysis leaves it.
AnalysedRow(url, an) ==
  UpdateArticleAnalysis(<<NewRow([url |-> url, title |-> "t1", published_date |-> Some(0)])>>,
                        url, an, "ok").store[1]

ArticleLists ==
  {<<>>} \cup {<<AnalysedRow(1, an)>> : an \in AnalysisArgs}
         \cup {<<AnalysedRow(1, a1), AnalysedRow(2, a2)>> : a1, a2 \in AnalysisArgs}

\* One call of analyze_article on the LLMProcessor.
DoAnalyzeArticle ==
  \E reply \in Replies :
    LET r == AnalyzeArticle(total_tokens_used, AnalysisTemplate, reply) IN
    /\ r.total <= MaxTotalTokens
    /\ total_tokens_used' = r.total
    /\ tokens_reported' = tokens_reported
                            + (IF reply.raises \/ IsNull(reply.usage) THEN 0 ELSE Val(reply.usage))
    /\ last' = [NoOp EXCEPT !.op = "analyze_article", !.analyses = <<r.ret>>,
                            !.requested = r.requested, !.tokens_before = total_tokens_used]
    /\ UNCHANGED <<store, now, prompt_template, fenced, digests>>

\* One call of generate_digest on the LLMProcessor, with any list of articles.
DoGenerateDigest ==
  \E rows \in ArticleLists, completion \in DraftOutcomes, usage \in UsageReports :
    LET articles == [k \in DOMAIN rows |-> k]
        total == GenerateDigestTokens(total_tokens_used, rows, articles, prompt_template,
                                      completion, usage)
        requested == CompletionRequested(rows, articles, prompt_template) IN
    /\ total <= MaxTotalTokens
    /\ total_tokens_used' = total
    /\ tokens_reported' = tokens_reported
                            + (IF requested /\ completion # "error" /\ ~IsNull(usage)
                                 THEN Val(usage) ELSE 0)
    /\ last' = [NoOp EXCEPT !.op = "generate_digest", !.articles = articles,
                            !.rows = rows, !.completion = completion,
                            !.digest_html = GenerateDigest(rows, articles, prompt_template,
                                                           completion),
                            !.requested = requested, !.tokens_before = total_tokens_used]
    /\ UNCHANGED <<store, now, prompt_template, fenced, digests>>

\* One LLMProcessor through any sequence of its calls.
NextLLM ==
  \/ DoAnalyzeArticle
  \/ DoGenerateDigest

SpecLLM == InitRun /\ [][NextLLM]_vars

\* The fetcher keeps no state of its own: a call is decided by the clock and
\* by what the feeds hold.  The call to come is laid out at the start, with
\* its arguments and the entries feedparser will return for it.
InitFetch ==
  /\ store = <<>>
  /\ now = MaxTime
  /\ \/ \E entries \in SeqsUpTo(Entries, MaxEntries), days \in FetchDaysArgs :
          last = [NoOp EXCEPT !.op = "call_fetch_single_feed", !.entries = entries,
                              !.days = days]
     \/ \E feeds \in [1..MaxFeeds -> FeedOutcomes], days \in FetchDaysArgs :
          last = [NoOp EXCEPT !.op = "call_fetch_recent_articles", !.feeds = feeds,
                              !.days = days]
  /\ fenced = {}
  /\ digests = <<>>
  /\ total_tokens_used = 0
  /\ tokens_reported = 0
  /\ prompt_template = ShippedDigestTemplate

\* One call of _fetch_single_feed, with the cutoff fetch_recent_articles
\* computes for `days`.
DoFetchSingleFeed ==
  /\ last.op = "call_fetch_single_feed"
  /\ last' = [last EXCEPT !.op = "fetch_single_feed",
                          !.fetched = FetchSingleFeed(last.entries, 1, now - last.days)]
  /\ UNCHANGED <<store, now, prompt_template, fenced, digests, llm>>

\* One call of fetch_recent_articles over the configured feeds.
DoFetchRecentArticles ==
  /\ last.op = "call_fetch_recent_articles"
  /\ LET r == FetchRecentArticles(last.feeds, now, last.days) IN
       last' = [last EXCEPT !.op = "fetch_recent_articles",
                            !.fetches = r.fetches, !.fetched = r.all_articles]
  /\ UNCHANGED <<store, now, prompt_template, fenced, digests, llm>>

NextFetch ==
  \/ DoFetchSingleFeed
  \/ DoFetchRecentArticles

SpecFetch == InitFetch /\ [][NextFetch]_vars

\* The fetch stage, run again and again over what the feeds hold.
InitFeeds ==
  /\ store = <<>>
  /\ now = MaxTime
  /\ \E feeds \in [1..MaxFeeds -> LinkedFeedOutcomes] :
       last = [NoOp EXCEPT !.op = "feeds", !.feeds = feeds]
  /\ fenced = {}
  /\ digests = <<>>
  /\ total_tokens_used = 0
  /\ tokens_reported = 0
  /\ prompt_template = ShippedDigestTemplate

\* One run of fetch_and_store_articles; its return value is last.new_count.
DoFetchAndStoreArticles ==
  \E days \in FetchDaysArgs, limit \in LimitArgs, fault \in StorageFaults :
    \E r \in {FetchAndStoreArticles(store, last.feeds, now, days, limit, fault)} :
    /\ fault.item <= Len(r.articles)
    /\ store' = r.store
    /\ digests' = [i \in Ids(r.store) |-> IF i \in Ids(store) THEN digests[i] ELSE 0]
    /\ last' = [NoOp EXCEPT !.op = "fetch_and_store_articles", !.feeds = last.feeds,
                            !.days = days, !.limit = limit, !.fault = fault.item,
                            !.fetched = r.articles, !.new_count = r.new_count,
                            !.stored_before = {store[i].url : i \in Ids(store)}]
    /\ UNCHANGED <<now, prompt_template, fenced, llm>>

NextStore ==
  \/ DoFetchAndStoreArticles

SpecStore == InitFeeds /\ [][NextStore]_vars

\* insert_article calls running side by side (parallel fetches, overlapping
\* runs), each a client of the one table: last.calls holds, per caller, the
\* call it is in and how far it has got.
Callers == 1..MaxCalls
IdleCall ==
  [url |-> NoLink, pc |-> "idle", ret |-> Null, write_attempted |-> FALSE, fault |-> FALSE]

InitCalls ==
  /\ store = <<>>
  /\ now = 0
  /\ last = [NoOp EXCEPT !.op = "insert_article_calls",
                         !.calls = [p \in Callers |-> IdleCall]]
  /\ fenced = {}
  /\ digests = <<>>
  /\ total_tokens_used = 0
  /\ tokens_reported = 0
  /\ prompt_template = ShippedDigestTemplate

\* A caller that is in no call enters insert_article with an article.
CallInsertArticle(p) ==
  /\ last.calls[p].pc \in {"idle", "done"}
  /\ \E url \in Urls :
       last' = [last EXCEPT !.calls[p] = [IdleCall EXCEPT !.url = url, !.pc = "check"]]
  /\ UNCHANGED <<store, now, prompt_template, fenced, digests, llm>>

\* The existence check of the call: a stored url ends it with None.
CheckArticleExists(p) ==
  /\ last.calls[p].pc = "check"
  /\ \E rd \in ReadOutcomes :
       last' = [last EXCEPT !.calls[p] =
                  IF ArticleExists(store, last.calls[p].url, rd)
                    THEN [@ EXCEPT !.pc = "done"]
                    ELSE [@ EXCEPT !.pc = "write", !.fault = (rd = "error")]]
  /\ UNCHANGED <<store, now, prompt_template, fenced, digests, llm>>

\* The insert request of the call, and its return.
WriteArticle(p) ==
  /\ last.calls[p].pc = "write"
  /\ \E wr \in WriteOutcomes :
       \E r \in {InsertArticleWrite(store, [url |-> last.calls[p].url, title |-> "t1",
                                             published_date |-> Null], wr)} :
         /\ store' = r.store
         /\ digests' = IF Len(r.store) > Len(store) THEN Append(digests, 0) ELSE digests
         /\ last' = [last EXCEPT !.calls[p] =
                       [@ EXCEPT !.pc = "done", !.ret = r.ret, !.write_attempted = TRUE,
                                 !.fault = @ \/ wr # "ok"]]
  /\ UNCHANGED <<now, prompt_template, fenced, llm>>

NextCalls ==
  \/ \E p \in Callers : CallInsertArticle(p)
  \/ \E p \in Callers : CheckArticleExists(p)
  \/ \E p \in Callers : WriteArticle(p)

SpecCalls == InitCalls /\ [][NextCalls]_vars

\* ------------------------------------------------------------ properties
IsDigestRun(l) == l.op = "generate_and_send_digest"
Starts == (0 - 1)..MaxTime
UrlStored(url) == RowsWithUrl(store, url) # {}
Articles == [url : Urls, title : Titles, published_date : NullableTimes]

\* C1: over runs of generate_and_send_digest executed one after another,
\* whatever each store write and each send does, no article is in the article
\* list of more than one digest for which send_digest returned True.
C1_AtMostOneSentDigest ==
  \A i \in DOMAIN digests : digests[i] <= 1

\* C2: once mark_articles_sent has returned True for the ids of stored
\* articles, no later get_articles_for_digest, with any date range, any
\* only_processed and any outcome of the query, returns one of them, whatever
\* inserts, analysis updates and marks happened in between.
C2_DeliveryFence ==
  \A start_date \in Starts, end_date \in Times, only_processed \in BOOLEAN,
     rd \in ReadOutcomes :
    \A seq \in GetArticlesForDigest(store, start_date, end_date, only_processed, rd) :
      Range(seq) \cap fenced = {}

\* A fenced article that is analyzed and dated, so that only the fence keeps it
\* out of the selection, with another call made after the mark.
C2_Witness ==
  /\ last.op = "update_article_analysis"
  /\ \E i \in fenced : store[i].processed /\ ~IsNull(store[i].published_date)
  /\ \E i \in Ids(store) : i \notin fenced

\* C3: in a digest run mark_articles_sent is called only after send_digest
\* returned True in that run; when send_digest returned False the run leaves
\* the store as it was and a second selection over the same date range gives
\* the same articles.
C3_MarkOnlyAfterSend ==
  [][IsDigestRun(last') =>
       /\ last'.mark_called => (last'.send_called /\ last'.send_ok)
       /\ (last'.send_called /\ ~last'.send_ok) =>
            /\ ~last'.mark_called
            /\ ~last'.ret_ok
            /\ store' = store
            /\ \A seq \in GetArticlesForDigest(store', now' - last'.days, now', TRUE, "ok") :
                 Range(seq) = Range(last'.articles)]_vars

C3_Witness ==
  /\ IsDigestRun(last)
  /\ last.send_called
  /\ ~last.send_ok
  /\ last.articles # <<>>

\* C4: for every store and every start <= end, a successful
\* get_articles_for_digest(start, end, only_processed) returns exactly the
\* stored articles whose published_date is in [start, end] inclusive, whose
\* included_in_email_date is null and, if only_processed, whose processed flag
\* is set, each once.
C4_SelectionExact ==
  \A start_date \in Starts, end_date \in Times, only_processed \in BOOLEAN :
    start_date <= end_date =>
      /\ GetArticlesForDigest(store, start_date, end_date, only_processed, "ok") # {}
      /\ \A seq \in GetArticlesForDigest(store, start_date, end_date, only_processed, "ok") :
           /\ \A i \in Ids(store) :
                (\E k \in DOMAIN seq : seq[k] = i) <=>
                   /\ store[i].published_date \in {Some(t) : t \in start_date..end_date}
                   /\ store[i].included_in_email_date = Null
                   /\ (only_processed => store[i].processed = TRUE)
           /\ \A k \in DOMAIN seq : seq[k] \in Ids(store)
           /\ \A k, m \in DOMAIN seq : seq[k] = seq[m] => k = m

\* A store where one article is published on the last day of a range and
\* selected, and another article is left out.
C4_Witness ==
  /\ Len(store) = 2
  /\ \E end_date \in Times :
       \E seq \in GetArticlesForDigest(store, end_date - 1, end_date, TRUE, "ok") :
         /\ Len(seq) = 1
         /\ store[seq[1]].published_date = Some(end_date)

\* C5: the list get_articles_for_digest returns is sorted by importance_score,
\* highest first: no article precedes an article with a strictly higher score.
C5_SortedByScore ==
  \A start_date \in Starts, end_date \in Times, only_processed \in BOOLEAN :
    \A seq \in GetArticlesForDigest(store, start_date, end_date, only_processed, "ok") :
      \A k, m \in DOMAIN seq :
        (/\ k < m
         /\ ~IsNull(store[seq[k]].importance_score)
         /\ ~IsNull(store[seq[m]].importance_score))
          => ~(Val(store[seq[k]].importance_score) < Val(store[seq[m]].importance_score))

\* Two analyzed, undelivered articles in range whose scores differ: the
\* second stored one has the higher score.
C5_Witness ==
  /\ Len(store) = 2
  /\ DigestQueryMatches(store, 0, MaxTime, TRUE) = {1, 2}
  /\ store[1].importance_score = Some(3)
  /\ store[2].importance_score = Some(9)

\* C6: two insert_article calls with the same url and no storage error leave
\* exactly one stored article with that url; the first returns the id of the
\* row when the url was new, the second returns None and leaves the store,
\* and with it every field of the stored row, as it was.
C6_InsertIdempotent ==
  \A a1 \in Articles, a2 \in Articles :
    a1.url = a2.url =>
      LET r1 == InsertArticle(store, a1, "ok", "ok")
          r2 == InsertArticle(r1.store, a2, "ok", "ok") IN
      /\ Cardinality(RowsWithUrl(r2.store, a1.url)) = 1
      /\ ~UrlStored(a1.url) =>
           /\ ~IsNull(r1.ret)
           /\ RowsWithUrl(r1.store, a1.url) = {Val(r1.ret)}
           /\ r1.store[Val(r1.ret)].title = a1.title
      /\ IsNull(r2.ret)
      /\ r2.store = r1.store

\* A second insert of a stored url has happened, without a storage error, for
\* a row that has been analyzed in between.
C6_Witness ==
  /\ last.op = "insert_article"
  /\ last.rd = "ok"
  /\ IsNull(last.ret_id)
  /\ \E i \in RowsWithUrl(store, last.url) : store[i].processed

\* C7: insert_article returns None and writes nothing when the url is already
\* stored or the insertion fails; otherwise it adds one row with the article's
\* url, title and published_date, processed = False, no analysis fields and
\* included_in_email_date null, and returns the id of that row.
C7_InsertContract ==
  \A a \in Articles, rd \in ReadOutcomes, wr \in WriteOutcomes :
    LET r == InsertArticle(store, a, rd, wr) IN
    IF UrlStored(a.url) \/ wr # "ok"
      THEN IsNull(r.ret) /\ r.store = store
      ELSE /\ ~IsNull(r.ret)
           /\ Val(r.ret) \notin Ids(store)
           /\ Ids(r.store) = Ids(store) \cup {Val(r.ret)}
           /\ \A i \in Ids(store) : r.store[i] = store[i]
           /\ LET row == r.store[Val(r.ret)] IN
                /\ row.url = a.url /\ row.title = a.title
                /\ row.published_date = a.published_date
                /\ row.processed = FALSE
                /\ row.included_in_email_date = Null
                /\ row.llm_summary = Null /\ row.llm_category = Null
                /\ row.importance_score = Null
                /\ row.key_entities = Null /\ row.data_points = Null

\* An insert has just added a second row to the store.
C7_Witness ==
  /\ last.op = "insert_article"
  /\ last.ret_id = Some(2)
  /\ Len(store) = 2

\* C8: no two stored rows have the same url, also after insert_article calls
\* in which article_exists hit a read error, answered False and the write of
\* a stored url was attempted.
C8_UrlUnique ==
  /\ \A i, j \in Ids(store) : store[i].url = store[j].url => i = j
  /\ (last.op = "insert_article" /\ last.rd = "error") => last.write_attempted

\* An insert of a stored url whose existence check failed has happened.
C8_Witness ==
  /\ last.op = "insert_article"
  /\ last.rd = "error"
  /\ last.write_attempted
  /\ IsNull(last.ret_id)
  /\ UrlStored(last.url)

\* C9: mark_articles_sent returns True only if every requested id has
\* included_in_email_date = email_date afterwards; an update that stamps only
\* some of the requested ids makes it return False.
C9_MarkAllOrFalse ==
  \A article_ids \in SUBSET Urls, email_date \in Times, wr \in ReadOutcomes :
    LET r == MarkArticlesSent(store, article_ids, email_date, wr) IN
    r.ret => \A i \in article_ids :
               /\ i \in Ids(r.store)
               /\ r.store[i].included_in_email_date = Some(email_date)

\* C10: once an article's included_in_email_date is non-null, no later
\* operation changes its value.
C10_SetOnce ==
  [][\A i \in Ids(store) :
       ~IsNull(store[i].included_in_email_date) =>
          store'[i].included_in_email_date = store[i].included_in_email_date]_vars
\* C11: update_article_analysis(url, ...) sets all five analysis fields and
\* processed = True together on the row matching url, changes nothing else, and
\* returns True; when no row matches url or the write fails it returns False
\* and no stored row is changed.
C11_UpdateAllTogether ==
  \A url \in Urls, an \in AnalysisArgs, wr \in WriteOutcomes :
     LET r == UpdateArticleAnalysis(store, url, an, wr)
     IN  IF wr = "ok" /\ UrlStored(url)
           THEN /\ r.ret = TRUE
                /\ Len(r.store) = Len(store)
                /\ \A i \in Ids(store) :
                      IF store[i].url = url
                        THEN r.store[i] =
                               [url |-> store[i].url, title |-> store[i].title,
                                published_date |-> store[i].published_date,
                                included_in_email_date |-> store[i].included_in_email_date,
                                processed |-> TRUE,
                                llm_summary |-> Some(an.llm_summary),
                                llm_category |-> Some(an.llm_category),
                                importance_score |-> an.importance_score,
                                key_entities |-> Some(an.key_entities),
                                data_points |-> Some(an.data_points)]
                        ELSE r.store[i] = store[i]
           ELSE r.ret = FALSE /\ r.store = store

\* An update has written its analysis to one row, next to a row it left alone.
C11_Witness ==
  /\ last.op = "update_article_analysis"
  /\ \E i, j \in Ids(store) :
        /\ i # j
        /\ store[i].processed
        /\ store[i].llm_summary = Some("s2")
        /\ ~store[j].processed

IsProcessRun(l) == l.op = "process_articles"
Populated(row) ==
  /\ ~IsNull(row.llm_summary)
  /\ ~IsNull(row.llm_category)
  /\ ~IsNull(row.importance_score)
  /\ ~IsNull(row.key_entities)
  /\ ~IsNull(row.data_points)

\* C12: in every reachable store state a processed article has all five
\* analysis fields populated, and what process_articles persisted for an
\* article are the values the analyzer returned for it: the analysis held all
\* five fields and the row holds exactly them.
C12_AnalyzerValuesOnly ==
  /\ \A i \in Ids(store) : store[i].processed => Populated(store[i])
  /\ IsProcessRun(last) =>
       \A k \in DOMAIN last.articles :
          last.updated[k] =>
            LET v == Val(last.analyses[k])
                row == store[last.articles[k]] IN
            /\ v.present = AnalysisFields
            /\ row.llm_summary = Some(v.summary)
            /\ row.llm_category = Some(v.category)
            /\ row.importance_score = v.importance_score
            /\ row.key_entities = Some(v.key_entities)
            /\ row.data_points = Some(v.data_points)

\* C13: every processed article has an importance_score that is an integer in
\* 1..10, whatever the backend returned to analyze_article.
C13_ScoreInRange ==
  \A i \in Ids(store) :
     store[i].processed =>
       /\ ~IsNull(store[i].importance_score)
       /\ Val(store[i].importance_score) \in 1..10

\* C14: when analyze_article returns None for an article, process_articles
\* has made at most one completion request for it in the run, has not called
\* update_article_analysis for it, and the article is still unprocessed, so
\* that get_unprocessed_articles returns it again.
C14_FailedAnalysisLeftForLater ==
  IsProcessRun(last) =>
    \A k \in DOMAIN last.articles :
       IsNull(last.analyses[k]) =>
         /\ last.requests[k] <= 1
         /\ ~last.update_called[k]
         /\ ~store[last.articles[k]].processed
         /\ \A seq \in GetUnprocessedArticles(store, Null, "ok") :
               last.articles[k] \in Range(seq)

\* A run over two articles: the analysis of one failed after its one request,
\* the other was analysed and stored.
C14_Witness ==
  /\ IsProcessRun(last)
  /\ \E k, m \in DOMAIN last.articles :
        /\ IsNull(last.analyses[k])
        /\ last.requests[k] = 1
        /\ last.updated[m]
        /\ store[last.articles[m]].processed

\* C15: total_tokens_used never decreases, and after any sequence of
\* completed calls, whether their output parsed or not, it is the sum of the
\* total_tokens the backend reported for them.
C15_TokensAreSumReported ==
  /\ total_tokens_used = tokens_reported
  /\ last.op \in {"analyze_article", "generate_digest"} =>
        last.tokens_before <= total_tokens_used

\* An analysis whose output did not parse has been counted, after earlier calls.
C15_Witness ==
  /\ last.op = "analyze_article"
  /\ last.requested
  /\ IsNull(last.analyses[1])
  /\ last.tokens_before > 0
  /\ total_tokens_used > last.tokens_before

\* C19: generate_digest given an empty article list returns None and issues
\* no completion request.
C19_EmptyListNoRequest ==
  (last.op = "generate_digest" /\ last.articles = <<>>) =>
    (IsNull(last.digest_html) /\ ~last.requested)

\* C20: what analyze_article returns after a transport-level error differs
\* from what it returns after a completion whose text is not the expected JSON.
C20_FailuresDistinguishable ==
  \A reply \in Replies :
     (~reply.raises /\ IsNull(ParseContent(reply.wrapper, reply.value))) =>
       AnalyzeArticle(total_tokens_used, AnalysisTemplate, reply).ret
         # AnalyzeArticle(total_tokens_used, AnalysisTemplate, ErrorReply).ret

HasLinkAndTitle(entry) == entry.link # NoLink /\ entry.title # ""
Undated(article) == IsNull(article.published_date)

\* C16: an entry for which _parse_date returns None and which has a link and
\* a title is returned by _fetch_single_feed with published_date = None, for
\* every cutoff: the undated articles returned are those entries, one each.
C16_UndatedAlwaysReturned ==
  last.op = "fetch_single_feed" =>
    LET Kept(e) == HasLinkAndTitle(e) /\ IsNull(ParseDate(e))
        kept == SelectSeq(last.entries, Kept) IN
    SelectSeq(last.fetched, Undated)
      = [k \in DOMAIN kept |->
           [url |-> kept[k].link, title |-> kept[k].title, feed_category |-> 1,
            published_date |-> Null]]

\* Two undated entries with link and title went through a cutoff that drops
\* dated ones.
C16_Witness ==
  /\ last.op = "fetch_single_feed"
  /\ Len(last.entries) = 2
  /\ \A k \in DOMAIN last.entries :
        HasLinkAndTitle(last.entries[k]) /\ IsNull(ParseDate(last.entries[k]))
  /\ last.entries[1] # last.entries[2]
  /\ Len(last.fetched) = 2
  /\ now - last.days > 0

\* C17: among the entries with link and title, _fetch_single_feed drops
\* exactly those whose date is known and strictly older than the cutoff; an
\* entry whose date was parsed and is at or after the cutoff is returned,
\* whether the date carries a timezone or is naive.
C17_DropsExactlyOlder ==
  last.op = "fetch_single_feed" =>
    LET cutoff_date == now - last.days
        Kept(e) == /\ HasLinkAndTitle(e)
                   /\ ~(~IsNull(ParseDate(e)) /\ Val(ParseDate(e)).t < cutoff_date)
        kept == SelectSeq(last.entries, Kept) IN
    last.fetched = [k \in DOMAIN kept |-> ArticleOf(kept[k], 1, ParseDate(kept[k]))]

RECURSIVE ItemsOfFeeds(_, _, _)
ItemsOfFeeds(feeds, cutoff_date, k) ==
  IF k > Len(feeds) THEN <<>>
  ELSE (IF IsNull(feeds[k]) THEN <<>> ELSE FetchSingleFeed(Val(feeds[k]), k, cutoff_date))
         \o ItemsOfFeeds(feeds, cutoff_date, k + 1)

\* C18: in fetch_recent_articles every configured feed is fetched exactly
\* once, whether it or another feed raised, and the result is the
\* concatenation, in configuration order, of the items of the feeds that did
\* not fail: a failing feed contributes nothing.
C18_FailingFeedSkipped ==
  last.op = "fetch_recent_articles" =>
    /\ DOMAIN last.fetches = DOMAIN last.feeds
    /\ \A f \in DOMAIN last.feeds : last.fetches[f] = 1
    /\ last.fetched = ItemsOfFeeds(last.feeds, now - last.days, 1)

\* The first feed raised and the items of a later feed were returned.
C18_Witness ==
  /\ last.op = "fetch_recent_articles"
  /\ IsNull(last.feeds[1])
  /\ \E f \in DOMAIN last.feeds : ~IsNull(last.feeds[f]) /\ Len(Val(last.feeds[f])) = 2
  /\ Len(last.fetched) = 2

Composed(l) == ~IsNull(l.digest_html) /\ Val(l.digest_html) # ""
Count(seq, x) == Cardinality({k \in DOMAIN seq : seq[k] = x})
Before(seq, x, y) == \E i, j \in DOMAIN seq : i < j /\ seq[i] = x /\ seq[j] = y

\* C21: with the shipped template, which has the three substitution points
\* article_count, article_list and date_range, a non-empty list of analysed
\* articles and a backend that answers with a body, generate_digest issues the
\* completion request and returns the body.
C21_ShippedTemplateComposes ==
  ( /\ last.op = "generate_digest"
    /\ prompt_template = ShippedDigestTemplate
    /\ last.rows # <<>>
    /\ ~SortRaises(last.rows, last.articles)
    /\ ~FormatArticlesRaises(last.rows, last.articles)
    /\ last.completion = "body" ) =>
  (last.requested /\ last.digest_html = Some("body"))

\* C22: no body generate_digest returns has the link of an article in it
\* more than once: a draft of the backend in which an article appears twice
\* is not returned.
C22_NoDuplicateInBody ==
  last.op = "generate_digest" => last.digest_html # Some("body_dup")

\* C23: the exit status of a run is 0 when generate_and_send_digest returned
\* True, and non-zero when it returned False because composition or dispatch
\* failed, in send-only mode and in the full workflow.
C23_ExitStatusTellsFailure ==
  IsDigestRun(last) =>
    /\ last.ret_ok =>
          (last.exit_status = 0 /\ FullWorkflowExitStatus(FALSE, last.ret_ok) = 0)
    /\ (last.articles # <<>> /\ ~last.ret_ok) =>
          (last.exit_status # 0 /\ FullWorkflowExitStatus(FALSE, last.ret_ok) # 0)

C25_SendOnceAfterComposition ==
  IsDigestRun(last) =>
    /\ Count(last.steps, "send") <= 1
    /\ last.send_called <=> Count(last.steps, "send") = 1
    /\ last.send_called =>
          /\ last.articles # <<>>
          /\ Composed(last)
          /\ Before(last.steps, "compose", "send")
    /\ (last.articles = <<>> \/ ~Composed(last)) => ~last.send_called

\* A run whose backend returned an empty body, next to nothing being sent.
C25_Witness ==
  /\ IsDigestRun(last)
  /\ ~last.dry_run
  /\ last.articles # <<>>
  /\ last.digest_html = Some("")
  /\ ~last.send_called

\* C26: when generate_and_send_digest stops at composition (empty selection,
\* or generate_digest returning None or an empty body) the store is as the
\* earlier steps left it: no row, flag, analysis field or
\* included_in_email_date is changed.
C26_FailedCompositionFrame ==
  [][(IsDigestRun(last') /\ (last'.articles = <<>> \/ ~Composed(last'))) =>
       (store' = store /\ ~last'.mark_called /\ ~last'.ret_ok)]_vars

\* Composition failed for a selection of analysed articles.
C26_Witness ==
  /\ IsDigestRun(last)
  /\ last.articles # <<>>
  /\ IsNull(last.digest_html)
  /\ \A k \in DOMAIN last.articles :
        store[last.articles[k]].processed
          /\ IsNull(store[last.articles[k]].included_in_email_date)

C28_StatsCountTheStore ==
  [][last'.op = "get_stats" =>
       /\ store' = store
       /\ last'.rd = "ok" =>
             /\ ~IsNull(last'.stats)
             /\ Val(last'.stats).total_articles = Len(store')
             /\ Val(last'.stats).processed_articles =
                   Cardinality({i \in Ids(store') : store'[i].processed})
             /\ Val(last'.stats).sent_articles =
                   Cardinality({i \in Ids(store') : store'[i].included_in_email_date # Null})
             /\ \A seq \in GetUnprocessedArticles(store', Null, "ok") :
                   Val(last'.stats).pending_processing = Len(seq)]_vars

\* get_stats on a store with a processed and sent row and an unprocessed one.
C28_Witness ==
  /\ last.op = "get_stats"
  /\ last.rd = "ok"
  /\ Val(last.stats).total_articles = 2
  /\ Val(last.stats).processed_articles = 1
  /\ Val(last.stats).sent_articles = 1
  /\ Val(last.stats).pending_processing = 1

\* C29: after a fetch_and_store_articles in which no insert_article call met
\* a storage error, the number of stored articles is the number of distinct
\* urls among the previously stored and the fetched items, and the returned
\* count is the number of rows added: a url fetched twice or already stored
\* is stored once and not counted as new again.
C29_StoresDistinctUrls ==
  [][(last'.op = "fetch_and_store_articles" /\ last'.fault = 0) =>
       /\ Len(store') =
            Cardinality({store[i].url : i \in Ids(store)}
                        \cup {last'.fetched[k].url : k \in DOMAIN last'.fetched})
       /\ last'.new_count = Len(store') - Len(store)
       /\ \A i, j \in Ids(store') : store'[i].url = store'[j].url => i = j
       /\ \A i \in Ids(store) : store'[i] = store[i]]_vars

\* A run that fetched one url from two feeds and a url that was already
\* stored, and added one row.
C29_Witness ==
  /\ last.op = "fetch_and_store_articles"
  /\ last.fault = 0
  /\ \E j, k \in DOMAIN last.fetched :
        /\ last.fetched[j].url = last.fetched[k].url
        /\ last.fetched[j].feed_category # last.fetched[k].feed_category
        /\ last.fetched[j].url \notin last.stored_before
  /\ \E k \in DOMAIN last.fetched : last.fetched[k].url \in last.stored_before
  /\ last.new_count = 1
  /\ Len(store) = 2

\* C30: when a non-dry-run generate_and_send_digest returns True, every
\* article selected for the digest has included_in_email_date equal to the
\* date of the run.
C30_SentArticlesStamped ==
  (IsDigestRun(last) /\ ~last.dry_run /\ last.ret_ok) =>
    \A k \in DOMAIN last.articles :
       store[last.articles[k]].included_in_email_date = Some(now)

\* C31: send_digest returns True exactly when the transport call returned a
\* status code in {200, 201, 202}; any other status code and any exception
\* raised while building or sending the message give False, and the caller
\* gets that value, not an exception: the run goes on to its return.
C31_SendDigestTrueIffAccepted ==
  (IsDigestRun(last) /\ last.send_called) =>
    /\ last.send_ok <=> (last.transport # Null /\ Val(last.transport) \in {200, 201, 202})
    /\ ~last.send_ok =>
          /\ ~last.ret_ok
          /\ ~last.mark_called
          /\ last.steps = <<"select", "compose", "save", "send">>

\* A send_digest call in which an exception was raised.
C31_Witness ==
  /\ IsDigestRun(last)
  /\ last.send_called
  /\ last.transport = Null
  /\ ~last.send_ok

\* C32: a save_digest_html that cannot write the file returns False without
\* raising and does not abort the run: a run that is not a dry run still
\* calls send_digest after it and, when that succeeds, mark_articles_sent.
C32_SaveFailureDoesNotAbort ==
  (IsDigestRun(last) /\ last.saved = "error") =>
    /\ ~SaveDigestHtml(last.saved)
    /\ ~last.dry_run =>
          /\ last.send_called
          /\ Before(last.steps, "save", "send")
          /\ last.send_ok => (last.mark_called /\ last.ret_ok)
    /\ last.dry_run => last.ret_ok

\* A run whose local copy could not be written, sent and marked all the same.
C32_Witness ==
  /\ IsDigestRun(last)
  /\ ~last.dry_run
  /\ last.saved = "error"
  /\ last.send_ok
  /\ last.mark_called
  /\ last.mark_ret

\* C33: get_unprocessed_articles(limit) returns only articles with
\* processed = False, no article twice; for every limit that is given (an
\* integer >= 0) it returns at most limit of them, and with limit = None all
\* of them.
C33_UnprocessedCappedByLimit ==
  \A limit \in LimitArgs :
    \A seq \in GetUnprocessedArticles(store, limit, "ok") :
      /\ \A k \in DOMAIN seq : seq[k] \in Ids(store) /\ ~store[seq[k]].processed
      /\ \A j, k \in DOMAIN seq : seq[j] = seq[k] => j = k
      /\ limit # Null => Len(seq) <= Val(limit)
      /\ limit = Null => Range(seq) = {i \in Ids(store) : ~store[i].processed}

\* C34: a process_articles run without a limit (whose query for the
\* unprocessed articles was served) passes every article that was unprocessed
\* at its start to analyze_article exactly once; whatever happens to one
\* article, a later one whose analysis is an object is handed to
\* update_article_analysis and is processed when that write succeeds; the
\* run ends and returns the number of articles it recorded.
C34_EveryArticleAnalyzedOnce ==
  [][(IsProcessRun(last') /\ last'.limit = Null /\ last'.rd = "ok") =>
       /\ Range(last'.articles) = {i \in Ids(store) : ~store[i].processed}
       /\ \A j, k \in DOMAIN last'.articles :
             last'.articles[j] = last'.articles[k] => j = k
       /\ DOMAIN last'.analyses = DOMAIN last'.articles
       /\ DOMAIN last'.updated = DOMAIN last'.articles
       /\ \A k \in DOMAIN last'.articles :
             /\ (/\ ~IsNull(last'.analyses[k])
                 /\ Val(last'.analyses[k]).shape = "object"
                 /\ Val(last'.analyses[k]).present # {}) => last'.update_called[k]
             /\ last'.updated[k] => store'[last'.articles[k]].processed
       /\ last'.processed_count = Count(last'.updated, TRUE)]_vars

\* A run over two articles in which the first could not be analysed and the
\* second was analysed and recorded.
C34_Witness ==
  /\ IsProcessRun(last)
  /\ last.limit = Null
  /\ last.rd = "ok"
  /\ Len(last.articles) = 2
  /\ IsNull(last.analyses[1])
  /\ last.updated = <<FALSE, TRUE>>
  /\ store[last.articles[2]].processed
  /\ last.processed_count = 1

\* C35: through the orchestrator's runs (storing fetched articles, recording
\* analyses, digest runs, in any order and number) an article with a non-null
\* included_in_email_date has processed = True, and a stored article whose
\* processed is True keeps it.
C35_SentImpliesProcessed ==
  [][/\ \A i \in Ids(store') :
          ~IsNull(store'[i].included_in_email_date) => store'[i].processed
     /\ \A i \in Ids(store) :
          store[i].processed => (i \in Ids(store') /\ store'[i].processed)]_vars

\* A digest run that stamped an analysed article while an unanalysed one with
\* a date in the range stayed behind.
C35_Witness ==
  /\ IsDigestRun(last)
  /\ last.mark_ret
  /\ \E i \in Range(last.articles) :
        store[i].processed /\ ~IsNull(store[i].included_in_email_date)
  /\ \E i \in Ids(store) :
        /\ ~store[i].processed
        /\ store[i].published_date = Some(now)
        /\ IsNull(store[i].included_in_email_date)

\* C36: an article stored with a null published_date is returned by no
\* get_articles_for_digest, whatever the date range, only_processed and the
\* outcome of the query, and so no run sends it or marks it delivered, even
\* after it has been analyzed.
C36_UndatedNeverInDigest ==
  \A i \in Ids(store) :
    IsNull(store[i].published_date) =>
      /\ \A start_date \in Starts, end_date \in Times, only_processed \in BOOLEAN,
            rd \in ReadOutcomes :
           \A seq \in GetArticlesForDigest(store, start_date, end_date, only_processed, rd) :
              i \notin Range(seq)
      /\ IsNull(store[i].included_in_email_date)
      /\ digests[i] = 0
      /\ i \notin fenced
      /\ IsDigestRun(last) => i \notin Range(last.articles)

\* A digest run that sent and marked a dated article while an analysed,
\* undated one stayed unsent.
C36_Witness ==
  /\ IsDigestRun(last)
  /\ last.send_ok
  /\ last.mark_ret
  /\ \E i \in Ids(store) :
        /\ IsNull(store[i].published_date)
        /\ store[i].processed
        /\ IsNull(store[i].included_in_email_date)

\* C37: when insert_article calls for one url run side by side, interleaved
\* between the existence check and the insert write, the store never holds
\* two rows for the url, at most one of the calls returns an id, and once a
\* call that met no storage error has returned there is exactly one row for
\* its url.
C37_ConcurrentInsertOneRow ==
  /\ \A i, j \in Ids(store) : store[i].url = store[j].url => i = j
  /\ last.op = "insert_article_calls" =>
       /\ \A p, q \in Callers :
             (/\ p # q
              /\ last.calls[p].url = last.calls[q].url
              /\ ~IsNull(last.calls[p].ret)) => IsNull(last.calls[q].ret)
       /\ \A p \in Callers :
             /\ ~IsNull(last.calls[p].ret) =>
                   /\ Val(last.calls[p].ret) \in Ids(store)
                   /\ store[Val(last.calls[p].ret)].url = last.calls[p].url
             /\ (last.calls[p].pc = "done" /\ ~last.calls[p].fault) =>
                   Cardinality(RowsWithUrl(store, last.calls[p].url)) = 1

\* Two calls for one url that both found it absent and both wrote: one got
\* the id, the other was turned down, and there is one row.
C37_Witness ==
  /\ last.op = "insert_article_calls"
  /\ \E p, q \in Callers :
        /\ p # q
        /\ last.calls[p].url = last.calls[q].url
        /\ last.calls[p].pc = "done" /\ last.calls[q].pc = "done"
        /\ last.calls[p].write_attempted /\ last.calls[q].write_attempted
        /\ ~last.calls[p].fault /\ ~last.calls[q].fault
        /\ ~IsNull(last.calls[p].ret) /\ IsNull(last.calls[q].ret)
        /\ Cardinality(RowsWithUrl(store, last.calls[p].url)) = 1

====
